---- MODULE Spec2Model ----
(***************************************************************************)
(* RowDB (src/app.cpp): the table data model (Cell, Column, Table), its    *)
(* text persistence (saveToFile / loadFromFile / split / trim), the cell   *)
(* reference resolution of DatabaseManager::editCell, the table registry   *)
(* (DatabaseManager) and the interactive loop of main.                     *)
(*                                                                         *)
(* A std::string is a sequence of one-character strings, so that parsing,  *)
(* splitting, trimming and formatting are computed character by character. *)
(* A Cell is its value, a Column is the sequence of its cells (index 0 of  *)
(* the code is index 1 here), a std::map is a function whose DOMAIN is the *)
(* set of keys.                                                            *)
(***************************************************************************)
EXTENDS Integers, Sequences, FiniteSets, TLC

VARIABLES tables, currentTable, files, last, tbl, pc, steps

vars == <<tables, currentTable, files, last, tbl, pc, steps>>

(***************************************************************************)
(* Bounds of the model.                                                    *)
(***************************************************************************)
\* cells a column can hold before an allocation may fail (std::bad_alloc)
MaxRows == 2
\* state-changing operations in one behaviour
MaxSteps == 4
\* cells of a row that may be appended before its allocation fails
MaxPartial == 1
\* width of size_t in the model (the arithmetic of the code is modulo 2^w)
SizeBits == 8

SIZE_MAX == 2^SizeBits - 1

(***************************************************************************)
(* Characters and strings.                                                 *)
(***************************************************************************)
Upper == <<"A","B","C","D","E","F","G","H","I","J","K","L","M",
           "N","O","P","Q","R","S","T","U","V","W","X","Y","Z">>

Lower == <<"a","b","c","d","e","f","g","h","i","j","k","l","m",
           "n","o","p","q","r","s","t","u","v","w","x","y","z">>

DigitChars == <<"0","1","2","3","4","5","6","7","8","9">>

\* the characters of the model in the order of their codes (char_traits::lt)
Ascii == <<"\t", "\n", "\f", "\r", " ", "+", ",", "-", ".">> \o DigitChars
         \o <<":">> \o Upper \o Lower

Ord(c) == CHOOSE i \in 1..Len(Ascii) : Ascii[i] = c

isdigit(c) == \E i \in 1..10 : DigitChars[i] = c

DigitValue(c) == (CHOOSE i \in 1..10 : DigitChars[i] = c) - 1

\* the white space of trim (and of isspace); "\v" has no TLA+ spelling
Whitespace == {" ", "\t", "\n", "\r", "\f"}

tolower(c) == IF \E i \in 1..26 : Upper[i] = c
              THEN Lower[CHOOSE i \in 1..26 : Upper[i] = c]
              ELSE c

toLower(s) == [i \in 1..Len(s) |-> tolower(s[i])]

\* std::string operator< : lexicographic on the character codes
RECURSIVE StrLess(_, _)
StrLess(a, b) ==
    IF b = <<>> THEN FALSE
    ELSE IF a = <<>> THEN TRUE
    ELSE IF a[1] # b[1] THEN Ord(a[1]) < Ord(b[1])
    ELSE StrLess(Tail(a), Tail(b))

\* s.substr(pos) and s.substr(0, n), pos and n counted as in the code
SubstrFrom(s, pos) == SubSeq(s, pos + 1, Len(s))

SubstrTo(s, n) == SubSeq(s, 1, IF n < Len(s) THEN n ELSE Len(s))

trim(s) ==
    LET keep == {i \in 1..Len(s) : s[i] \notin Whitespace}
    IN  IF keep = {} THEN <<>>
        ELSE LET start == CHOOSE i \in keep : \A j \in keep : i <= j
                 end   == CHOOSE i \in keep : \A j \in keep : j <= i
             IN  SubSeq(s, start, end)

\* position of the first delimiter at or after pos (1-based), 0 when none
FindChar(s, pos, d) ==
    LET hits == {i \in pos..Len(s) : s[i] = d}
    IN  IF hits = {} THEN 0 ELSE CHOOSE i \in hits : \A j \in hits : i <= j

\* split: std::getline(tokenStream, token, delimiter) until it fails; a
\* getline that meets the end of the string without extracting a character
\* fails, so an empty string and an empty last field give no token
RECURSIVE SplitFrom(_, _, _)
SplitFrom(s, pos, delimiter) ==
    IF pos > Len(s) THEN <<>>
    ELSE LET k == FindChar(s, pos, delimiter)
         IN  IF k = 0 THEN <<trim(SubSeq(s, pos, Len(s)))>>
             ELSE <<trim(SubSeq(s, pos, k - 1))>> \o SplitFrom(s, k + 1, delimiter)

split(s, delimiter) == SplitFrom(s, 1, delimiter)

isNumber(s) == s # <<>> /\ \A i \in 1..Len(s) : isdigit(s[i])

\* std::to_string of a size_t
RECURSIVE to_string(_)
to_string(n) ==
    IF n < 10 THEN <<DigitChars[n + 1]>>
    ELSE to_string(n \div 10) \o <<DigitChars[(n % 10) + 1]>>

\* std::stoul: white space, an optional sign, then the longest run of digits
StoulBody(s) ==
    LET ns   == {i \in 1..Len(s) : s[i] \notin Whitespace}
        p    == IF ns = {} THEN Len(s) + 1
                ELSE CHOOSE i \in ns : \A j \in ns : i <= j
        sign == p <= Len(s) /\ s[p] \in {"+", "-"}
        q    == IF sign THEN p + 1 ELSE p
        nd   == {i \in q..Len(s) : ~isdigit(s[i])}
        e    == IF nd = {} THEN Len(s) + 1
                ELSE CHOOSE i \in nd : \A j \in nd : i <= j
    IN  [neg |-> sign /\ s[p] = "-", digits |-> SubSeq(s, q, e - 1)]

RECURSIVE DecimalValue(_, _)
\* the value of a run of digits, saturated just above SIZE_MAX
DecimalValue(ds, acc) ==
    IF ds = <<>> THEN acc
    ELSE IF acc > SIZE_MAX THEN acc
    ELSE DecimalValue(Tail(ds), 10 * acc + DigitValue(ds[1]))

\* [err, value]: invalid_argument without digits, out_of_range above the
\* largest unsigned long, a leading minus negates modulo 2^w
stoul(s) ==
    LET b == StoulBody(s)
        v == DecimalValue(b.digits, 0)
    IN  IF b.digits = <<>> THEN [err |-> "invalid_argument", value |-> 0]
        ELSE IF v > SIZE_MAX THEN [err |-> "out_of_range", value |-> 0]
        ELSE [err |-> "none",
              value |-> IF b.neg THEN (SIZE_MAX + 1 - v) % (SIZE_MAX + 1) ELSE v]

(***************************************************************************)
(* Column and Table.  A table is [name, columns, columnOrder]: columns is  *)
(* the std::map from column name to the column's cells, columnOrder the    *)
(* vector of names.                                                        *)
(***************************************************************************)
Table(tableName) == [name |-> tableName, columns |-> <<>>, columnOrder |-> <<>>]

HasColumn(t, colName) == colName \in DOMAIN t.columns

\* Column::operator[] (non-const): resize to index + 1 when out of range
ColumnResize(cells, index) ==
    IF index >= Len(cells)
    THEN cells \o [i \in 1..(index + 1 - Len(cells)) |-> <<>>]
    ELSE cells

\* Column::operator[] const: the cell, or the static empty cell
ColumnAtConst(cells, index) ==
    IF index < Len(cells) THEN cells[index + 1] ELSE <<>>

\* std::map::operator[]: a missing key is inserted with a default Column
MapIndex(columns, colName) ==
    IF colName \in DOMAIN columns THEN columns
    ELSE [k \in DOMAIN columns \cup {colName} |->
             IF k = colName THEN <<>> ELSE columns[k]]

\* std::map::begin: the entry with the least key
MapBegin(columns) ==
    CHOOSE k \in DOMAIN columns : \A o \in DOMAIN columns : o = k \/ StrLess(k, o)

\* the expression columns[colName][rowIndex]: the table after the two
\* operator[] calls and the value of the cell they yield
CellAccess(t, colName, rowIndex) ==
    LET cols  == MapIndex(t.columns, colName)
        cells == ColumnResize(cols[colName], rowIndex)
    IN  [t     |-> [t EXCEPT !.columns = [cols EXCEPT ![colName] = cells]],
         value |-> cells[rowIndex + 1]]

Table_addColumn(t, colName) ==
    IF ~HasColumn(t, colName)
    THEN [t EXCEPT !.columns = [k \in DOMAIN t.columns \cup {colName} |->
                                   IF k = colName THEN <<>> ELSE t.columns[k]],
                   !.columnOrder = Append(t.columnOrder, colName)]
    ELSE t

Table_removeColumn(t, colName) ==
    IF HasColumn(t, colName)
    THEN [t EXCEPT !.columns = [k \in DOMAIN t.columns \ {colName} |-> t.columns[k]],
                   !.columnOrder = SelectSeq(t.columnOrder, LAMBDA c : c # colName)]
    ELSE t

\* Column& getColumn(colName): columns[colName]
Table_getColumn(t, colName) ==
    LET cols == MapIndex(t.columns, colName)
    IN  [t |-> [t EXCEPT !.columns = cols], value |-> cols[colName]]

\* const Column& getColumn(colName) const
Table_getColumnConst(t, colName) ==
    IF HasColumn(t, colName) THEN t.columns[colName] ELSE <<>>

Table_getColumnNames(t) == t.columnOrder

Table_getRowCount(t) ==
    IF DOMAIN t.columns = {} THEN 0
    ELSE Len(t.columns[MapBegin(t.columns)])

\* Cell& getCell(colName, rowIndex)
Table_getCell(t, colName, rowIndex) == CellAccess(t, colName, rowIndex)

\* const Cell& getCell(colName, rowIndex) const
Table_getCellConst(t, colName, rowIndex) ==
    IF HasColumn(t, colName)
    THEN ColumnAtConst(t.columns[colName], rowIndex)
    ELSE <<>>

Table_setCell(t, colName, rowIndex, value) ==
    LET a == CellAccess(t, colName, rowIndex)
    IN  [a.t EXCEPT !.columns[colName][rowIndex + 1] = value]

\* the loop of addRow: columns[columnOrder[i]].addCell(values[i])
RECURSIVE AddCells(_, _, _)
AddCells(t, values, i) ==
    IF i > Len(t.columnOrder) THEN t
    ELSE LET c    == t.columnOrder[i]
             cols == MapIndex(t.columns, c)
         IN  AddCells([t EXCEPT !.columns =
                          [cols EXCEPT ![c] = Append(cols[c], values[i])]],
                      values, i + 1)

\* addRow that appends to the first column before it compares the sizes
Table_addRow_checkAfter(t, values) ==
    IF Len(values) # Len(t.columnOrder)
    THEN [err |-> "DimensionMismatch",
          t |-> IF values # <<>> /\ t.columnOrder # <<>>
                THEN [t EXCEPT !.columns[t.columnOrder[1]] = Append(@, values[1])]
                ELSE t]
    ELSE [err |-> "none", t |-> AddCells(t, values, 1)]

Table_addRow(t, values) ==
    IF Len(values) # Len(t.columnOrder)
    THEN [err |-> "DimensionMismatch", t |-> t]
    ELSE [err |-> "none", t |-> AddCells(t, values, 1)]

(***************************************************************************)
(* Persistence.  A file is the sequence of its characters, "\n" included.  *)
(***************************************************************************)
STR_TABLE == <<"T","A","B","L","E",":">>

STR_COLUMNS == <<"C","O","L","U","M","N","S",":">>

STR_ROWS == <<"R","O","W","S",":">>

STR_DATA == <<"D","A","T","A",":">>

STR_ODT == <<".","o","d","t">>

\* the names written by the COLUMNS loop, "," between two of them
RECURSIVE JoinComma(_, _)
JoinComma(names, j) ==
    IF j > Len(names) THEN <<>>
    ELSE (IF j > 1 THEN <<",">> ELSE <<>>) \o names[j] \o JoinComma(names, j + 1)

\* the DATA loops of saveToFile: row i, column j, out the text written so
\* far; columns[columnOrder[j]][i] is the non-const access
RECURSIVE SaveCells(_, _, _, _, _)
SaveCells(t, i, j, rowCount, out) ==
    IF i >= rowCount THEN [t |-> t, text |-> out]
    ELSE IF j > Len(t.columnOrder)
         THEN SaveCells(t, i + 1, 1, rowCount, out \o <<"\n">>)
         ELSE LET a == CellAccess(t, t.columnOrder[j], i)
              IN  SaveCells(a.t, i, j + 1, rowCount,
                            out \o (IF j > 1 THEN <<",">> ELSE <<>>) \o a.value)

\* saveToFile: the table after the call and the text of the file
Table_saveToFile(t) ==
    LET rowCount == Table_getRowCount(t)
        header   == STR_TABLE \o t.name \o <<"\n">>
                    \o STR_COLUMNS \o JoinComma(t.columnOrder, 1) \o <<"\n">>
                    \o STR_ROWS \o to_string(rowCount) \o <<"\n">>
                    \o STR_DATA \o <<"\n">>
    IN  SaveCells(t, 0, 1, rowCount, header)

\* an std::ifstream on a text: the position of the next character and
\* whether the stream is still good()
OpenStream == [pos |-> 1, good |-> TRUE]

\* std::getline(file, line): a stream that is not good fails in the sentry
\* and leaves line as it was; otherwise line is erased and filled up to the
\* next "\n" or the end of the file, which sets eofbit
GetLine(text, st, line) ==
    IF ~st.good THEN [st |-> st, line |-> line]
    ELSE LET k == FindChar(text, st.pos, "\n")
         IN  IF k # 0
             THEN [st |-> [pos |-> k + 1, good |-> TRUE],
                   line |-> SubSeq(text, st.pos, k - 1)]
             ELSE [st |-> [pos |-> Len(text) + 1, good |-> FALSE],
                   line |-> SubSeq(text, st.pos, Len(text))]

RECURSIVE AddColumns(_, _, _)
AddColumns(t, colNames, j) ==
    IF j > Len(colNames) THEN t
    ELSE AddColumns(Table_addColumn(t, colNames[j]), colNames, j + 1)

RECURSIVE SetCells(_, _, _, _, _)
SetCells(t, colNames, i, values, j) ==
    IF j > Len(colNames) THEN t
    ELSE SetCells(Table_setCell(t, colNames[j], i, values[j]), colNames, i, values, j + 1)

\* the data loop of loadFromFile, from row i on
RECURSIVE LoadRows(_, _, _, _, _, _, _)
LoadRows(text, st, line, t, i, rowCount, colNames) ==
    IF i >= rowCount THEN [err |-> "none", t |-> t]
    ELSE LET g      == GetLine(text, st, line)
             values == split(g.line, ",")
         IN  IF Len(values) # Len(colNames)
             THEN [err |-> "FormatError", t |-> t]
             ELSE LoadRows(text, g.st, g.line,
                           SetCells(t, colNames, i, values, 1),
                           i + 1, rowCount, colNames)

\* loadFromFile on the text of an open file: [err, t]
Table_loadFromFile(text) ==
    LET g1 == GetLine(text, OpenStream, <<>>)
        g2 == GetLine(text, g1.st, g1.line)
        g3 == GetLine(text, g2.st, g2.line)
        g4 == GetLine(text, g3.st, g3.line)
        colNames == split(SubstrFrom(g2.line, 8), ",")
        table    == AddColumns(Table(SubstrFrom(g1.line, 6)), colNames, 1)
        rows     == stoul(SubstrFrom(g3.line, 5))
    IN  IF SubstrTo(g1.line, 6) # STR_TABLE
        THEN [err |-> "FormatError", t |-> Table(<<>>)]
        ELSE IF SubstrTo(g2.line, 8) # STR_COLUMNS
        THEN [err |-> "FormatError", t |-> Table(<<>>)]
        ELSE IF SubstrTo(g3.line, 5) # STR_ROWS
        THEN [err |-> "FormatError", t |-> Table(<<>>)]
        ELSE IF rows.err # "none"
        THEN [err |-> rows.err, t |-> Table(<<>>)]
        ELSE LoadRows(text, g4.st, g4.line, table, 0, rows.value, colNames)

(***************************************************************************)
(* DatabaseManager.  tables is the std::map from table name to Table;      *)
(* currentTable is the Table* : NullPtr, or PtrTo(k) for &tables[k] (the   *)
(* map never erases, so the address of an entry stays valid).              *)
(***************************************************************************)
NullPtr == <<>>

PtrTo(k) == <<k>>

Deref(tabs, ptr) == tabs[ptr[1]]

\* tables[k] = t
MapAssign(tabs, k, t) ==
    [n \in DOMAIN tabs \cup {k} |-> IF n = k THEN t ELSE tabs[n]]

fileExists(fs, filename) == filename \in DOMAIN fs

\* createTable without the lookup of the name
DM_createTable_noLookup(tabs, cur, tableName, columns) ==
    [err |-> IF tableName \in DOMAIN tabs THEN "TableAlreadyExists" ELSE "none",
     tables |-> MapAssign(tabs, tableName, AddColumns(Table(tableName), columns, 1)),
     currentTable |-> PtrTo(tableName)]

DM_createTable(tabs, cur, tableName, columns) ==
    IF tableName \in DOMAIN tabs
    THEN [err |-> "TableAlreadyExists", tables |-> tabs, currentTable |-> cur]
    ELSE [err |-> "none",
          tables |-> MapAssign(tabs, tableName,
                               AddColumns(Table(tableName), columns, 1)),
          currentTable |-> PtrTo(tableName)]

\* loadTable that stores the table and leaves currentTable as it was
DM_loadTable_keepCurrent(tabs, cur, fs, filename) ==
    LET actualFilename == IF fileExists(fs, filename) THEN filename
                          ELSE filename \o STR_ODT
    IN  IF ~fileExists(fs, filename) /\ ~fileExists(fs, filename \o STR_ODT)
        THEN [err |-> "FileNotFound", tables |-> tabs, currentTable |-> cur]
        ELSE LET r == Table_loadFromFile(fs[actualFilename])
             IN  IF r.err # "none"
                 THEN [err |-> r.err, tables |-> tabs, currentTable |-> cur]
                 ELSE [err |-> "none",
                       tables |-> MapAssign(tabs, r.t.name, r.t),
                       currentTable |-> cur]

DM_loadTable(tabs, cur, fs, filename) ==
    LET actualFilename == IF fileExists(fs, filename) THEN filename
                          ELSE filename \o STR_ODT
    IN  IF ~fileExists(fs, filename) /\ ~fileExists(fs, filename \o STR_ODT)
        THEN [err |-> "FileNotFound", tables |-> tabs, currentTable |-> cur]
        ELSE LET r == Table_loadFromFile(fs[actualFilename])
             IN  IF r.err # "none"
                 THEN [err |-> r.err, tables |-> tabs, currentTable |-> cur]
                 ELSE [err |-> "none",
                       tables |-> MapAssign(tabs, r.t.name, r.t),
                       currentTable |-> PtrTo(r.t.name)]

DM_saveTable(tabs, cur, fs, filename) ==
    IF cur = NullPtr
    THEN [err |-> "NoTableSelected", tables |-> tabs, files |-> fs]
    ELSE LET r == Table_saveToFile(Deref(tabs, cur))
         IN  [err |-> "none",
              tables |-> MapAssign(tabs, cur[1], r.t),
              files |-> [f \in DOMAIN fs \cup {filename} |->
                            IF f = filename THEN r.text ELSE fs[f]]]

DM_selectTable(tabs, cur, tableName) ==
    IF tableName \notin DOMAIN tabs
    THEN [err |-> "TableNotFound", currentTable |-> cur]
    ELSE [err |-> "none", currentTable |-> PtrTo(tableName)]

DM_displayCurrentTable(tabs, cur) ==
    IF cur = NullPtr THEN [err |-> "NoTableSelected"] ELSE [err |-> "none"]

\* the number of characters of cellRef before its first digit
LeadingNonDigits(cellRef) ==
    LET ds == {i \in 1..Len(cellRef) : isdigit(cellRef[i])}
    IN  IF ds = {} THEN Len(cellRef)
        ELSE (CHOOSE i \in ds : \A j \in ds : i <= j) - 1

emptyRow(n) == [j \in 1..n |-> <<>>]

\* a row that memory has no room for: the cells appended before the
\* allocation of cell number k + 1 fails; a column that already holds more
\* than MaxRows cells cannot grow at all
RECURSIVE PartialRow(_, _, _)
PartialRow(t, k, j) ==
    IF j > k \/ j > Len(t.columnOrder) THEN t
    ELSE IF Len(t.columns[t.columnOrder[j]]) > MaxRows THEN t
    ELSE PartialRow([t EXCEPT !.columns[t.columnOrder[j]] = Append(@, <<>>)], k, j + 1)

RoomForRow(t) ==
    \A j \in 1..Len(t.columnOrder) : Len(t.columns[t.columnOrder[j]]) < MaxRows

\* the expansion loop with > in place of >=
RECURSIVE ExpandRows_gt(_, _, _)
ExpandRows_gt(t, rowIndex, k) ==
    IF rowIndex <= Table_getRowCount(t) THEN [err |-> "none", t |-> t]
    ELSE IF RoomForRow(t)
    THEN ExpandRows_gt(Table_addRow(t, emptyRow(Len(t.columnOrder))).t, rowIndex, k)
    ELSE [err |-> "bad_alloc", t |-> PartialRow(t, k, 1)]

\* while (rowIndex >= getRowCount()) addRow(emptyRow); the loop ends with
\* std::bad_alloc, after k cells of the row, once the columns are full
RECURSIVE ExpandRows(_, _, _)
ExpandRows(t, rowIndex, k) ==
    IF rowIndex < Table_getRowCount(t) THEN [err |-> "none", t |-> t]
    ELSE IF RoomForRow(t)
    THEN ExpandRows(Table_addRow(t, emptyRow(Len(t.columnOrder))).t, rowIndex, k)
    ELSE [err |-> "bad_alloc", t |-> PartialRow(t, k, 1)]

\* stoul(rowStr) - 1 in size_t
RowIndexOf(value) == (value + SIZE_MAX) % (SIZE_MAX + 1)

DM_editCell(tabs, cur, cellRef, newValue, k) ==
    LET i        == LeadingNonDigits(cellRef)
        colName  == SubstrTo(cellRef, i)
        rowStr   == SubstrFrom(cellRef, i)
        row      == stoul(rowStr)
        rowIndex == RowIndexOf(row.value)
        t        == Deref(tabs, cur)
        colNames == Table_getColumnNames(t)
        grown    == ExpandRows(t, rowIndex, k)
    IN  IF cur = NullPtr THEN [err |-> "NoTableSelected", tables |-> tabs]
        ELSE IF i = 0 \/ i = Len(cellRef)
        THEN [err |-> "InvalidReference", tables |-> tabs]
        ELSE IF ~isNumber(rowStr) THEN [err |-> "InvalidReference", tables |-> tabs]
        ELSE IF row.err # "none" THEN [err |-> row.err, tables |-> tabs]
        ELSE IF \A j \in 1..Len(colNames) : colNames[j] # colName
        THEN [err |-> "ColumnNotFound", tables |-> tabs]
        ELSE IF grown.err # "none"
        THEN [err |-> grown.err, tables |-> MapAssign(tabs, cur[1], grown.t)]
        ELSE [err |-> "none",
              tables |-> MapAssign(tabs, cur[1],
                                   Table_setCell(grown.t, colName, rowIndex, newValue))]

DM_addRow(tabs, cur, values) ==
    IF cur = NullPtr THEN [err |-> "NoTableSelected", tables |-> tabs]
    ELSE LET r == Table_addRow(Deref(tabs, cur), values)
         IN  [err |-> r.err, tables |-> MapAssign(tabs, cur[1], r.t)]

(***************************************************************************)
(* The arguments the operations are called with.                           *)
(***************************************************************************)
contacts == <<"c","o","n","t","a","c","t","s">>

Name == <<"N","a","m","e">>

Phone == <<"P","h","o","n","e">>

JohnDoe == <<"J","o","h","n"," ","D","o","e">>

TableNames == {contacts, <<"t">>}

\* the tables created: a name and its column names
CreateArgs == {<<contacts, <<Name, Phone>>>>, <<<<"t">>, <<<<"B">>, <<"A">>>>>>}

Values == {<<>>, JohnDoe}

RowLists == {<<JohnDoe, <<>>>>, <<<<"x", ",", "y">>, <<" ", "x">>>>, <<JohnDoe>>}

\* references: a column-name candidate followed by a row number, and two
\* tokens without letters or without digits
CellRefs == {c \o to_string(n) : c \in {Name, <<"A">>}, n \in 0..MaxRows}
            \cup {<<"5">>, Name}

FileNames == {<<"f">>, <<"g">>}

\* the file g.odt found on disk at start: a saved table t
InitialFiles ==
    LET t0 == Table_addRow(AddColumns(Table(<<"t">>), <<<<"B">>, <<"A">>>>, 1),
                           <<<<"x">>, <<"y">>>>).t
    IN  [f \in {<<"g">> \o STR_ODT} |-> Table_saveToFile(t0).text]

Result(op, err, args) == [op |-> op, err |-> err, args |-> args, ret |-> <<>>]

ResultRet(op, err, args, ret) == [op |-> op, err |-> err, args |-> args, ret |-> ret]

\* one more state-changing operation
Count(changed) == steps' = IF changed THEN steps + 1 ELSE steps

(***************************************************************************)
(* Spec: the operations of DatabaseManager, called in any order.           *)
(***************************************************************************)
Init ==
    /\ tables = <<>>
    /\ currentTable = NullPtr
    /\ files = InitialFiles
    /\ last = Result("init", "none", <<>>)
    /\ tbl = Table(<<>>)
    /\ pc = "api"
    /\ steps = 0

createTable(tableName, columns) ==
    LET r == DM_createTable(tables, currentTable, tableName, columns)
    IN  /\ steps < MaxSteps
        /\ tables' = r.tables
        /\ currentTable' = r.currentTable
        /\ last' = Result("createTable", r.err, <<tableName, columns>>)
        /\ Count(r.err = "none")
        /\ UNCHANGED <<files, tbl, pc>>

loadTable(filename) ==
    LET r == DM_loadTable(tables, currentTable, files, filename)
    IN  /\ steps < MaxSteps
        /\ tables' = r.tables
        /\ currentTable' = r.currentTable
        /\ last' = Result("loadTable", r.err, <<filename>>)
        /\ Count(r.err = "none")
        /\ UNCHANGED <<files, tbl, pc>>

saveTable(filename) ==
    LET r == DM_saveTable(tables, currentTable, files, filename)
    IN  /\ steps < MaxSteps
        /\ tables' = r.tables
        /\ files' = r.files
        /\ last' = Result("saveTable", r.err, <<filename>>)
        /\ Count(r.err = "none")
        /\ UNCHANGED <<currentTable, tbl, pc>>

selectTable(tableName) ==
    LET r == DM_selectTable(tables, currentTable, tableName)
    IN  /\ steps < MaxSteps
        /\ currentTable' = r.currentTable
        /\ last' = Result("selectTable", r.err, <<tableName>>)
        /\ Count(r.err = "none")
        /\ UNCHANGED <<tables, files, tbl, pc>>

editCell(cellRef, newValue, k) ==
    LET r == DM_editCell(tables, currentTable, cellRef, newValue, k)
    IN  /\ steps < MaxSteps
        /\ k = 0 \/ r.err = "bad_alloc"
        /\ tables' = r.tables
        /\ last' = Result("editCell", r.err, <<cellRef, newValue>>)
        /\ Count(r.tables # tables)
        /\ UNCHANGED <<currentTable, files, tbl, pc>>

addRow(values) ==
    LET r == DM_addRow(tables, currentTable, values)
    IN  /\ steps < MaxSteps
        /\ currentTable # NullPtr => RoomForRow(Deref(tables, currentTable))
        /\ tables' = r.tables
        /\ last' = Result("addRow", r.err, <<values>>)
        /\ Count(r.err = "none")
        /\ UNCHANGED <<currentTable, files, tbl, pc>>

Next ==
    \/ \E a \in CreateArgs : createTable(a[1], a[2])
    \/ \E f \in FileNames : loadTable(f)
    \/ \E f \in {<<"f">>} : saveTable(f)
    \/ \E n \in TableNames : selectTable(n)
    \/ \E ref \in CellRefs, v \in Values, k \in 0..MaxPartial : editCell(ref, v, k)
    \/ \E vs \in RowLists : addRow(vs)

Spec == Init /\ [][Next]_vars

(***************************************************************************)
(* TableSpec: the public operations of one Table object, called directly.  *)
(***************************************************************************)
ColNames == {<<"A">>, <<"B">>}

RowIndexes == 0..(MaxRows - 1)

TableInit ==
    /\ tbl = Table(<<"t">>)
    /\ tables = <<>>
    /\ currentTable = NullPtr
    /\ files = <<>>
    /\ last = Result("init", "none", <<>>)
    /\ pc = "api"
    /\ steps = 0

TableStep(t, result) ==
    /\ tbl' = t
    /\ last' = result
    /\ Count(t # tbl)
    /\ UNCHANGED <<tables, currentTable, files, pc>>

T_addColumn(colName) ==
    /\ steps < MaxSteps
    /\ TableStep(Table_addColumn(tbl, colName), Result("addColumn", "none", <<colName>>))

T_removeColumn(colName) ==
    /\ steps < MaxSteps
    /\ TableStep(Table_removeColumn(tbl, colName), Result("removeColumn", "none", <<colName>>))

T_getColumn(colName) ==
    LET r == Table_getColumn(tbl, colName)
    IN  /\ steps < MaxSteps
        /\ TableStep(r.t, ResultRet("getColumn", "none", <<colName>>, r.value))

T_getColumnConst(colName) ==
    /\ steps < MaxSteps
    /\ TableStep(tbl, ResultRet("getColumnConst", "none", <<colName>>,
                                Table_getColumnConst(tbl, colName)))

T_getCell(colName, rowIndex) ==
    LET r == Table_getCell(tbl, colName, rowIndex)
    IN  /\ steps < MaxSteps
        /\ TableStep(r.t, ResultRet("getCell", "none", <<colName, rowIndex>>, r.value))

T_getCellConst(colName, rowIndex) ==
    /\ steps < MaxSteps
    /\ TableStep(tbl, ResultRet("getCellConst", "none", <<colName, rowIndex>>,
                                Table_getCellConst(tbl, colName, rowIndex)))

T_setCell(colName, rowIndex, value) ==
    /\ steps < MaxSteps
    /\ TableStep(Table_setCell(tbl, colName, rowIndex, value),
                 Result("setCell", "none", <<colName, rowIndex, value>>))

T_addRow(values) ==
    LET r == Table_addRow(tbl, values)
    IN  /\ steps < MaxSteps
        /\ RoomForRow(tbl)
        /\ TableStep(r.t, Result("addRow", r.err, <<values>>))

TableNext ==
    \/ \E c \in ColNames : T_addColumn(c)
    \/ \E c \in ColNames : T_removeColumn(c)
    \/ \E c \in ColNames : T_getColumn(c)
    \/ \E c \in ColNames : T_getColumnConst(c)
    \/ \E c \in ColNames, i \in RowIndexes : T_getCell(c, i)
    \/ \E c \in ColNames, i \in RowIndexes : T_getCellConst(c, i)
    \/ \E c \in ColNames, i \in RowIndexes, v \in {JohnDoe} : T_setCell(c, i, v)
    \/ \E vs \in RowLists : T_addRow(vs)

TableSpec == TableInit /\ [][TableNext]_vars

(***************************************************************************)
(* LoadSpec: Table::loadFromFile applied to the text of a file.            *)
(***************************************************************************)
MaxDataLines == 3

HeaderText(cols, rows) ==
    STR_TABLE \o <<"t", "\n">> \o STR_COLUMNS \o cols \o <<"\n">>
    \o STR_ROWS \o to_string(rows) \o <<"\n">> \o STR_DATA \o <<"\n">>

RECURSIVE JoinLines(_, _)
JoinLines(ls, j) ==
    IF j > Len(ls) THEN <<>>
    ELSE (IF j > 1 THEN <<"\n">> ELSE <<>>) \o ls[j] \o JoinLines(ls, j + 1)

ColumnsLines == {<<>>, <<"A">>, <<"A", ",", "B">>}

DataLines == {<<>>, <<"x">>, <<"x", ",", "y">>}

\* the files loaded: a header, up to MaxDataLines data lines, and a last
\* line that ends with a newline or at the end of the file
LoadTexts ==
    {HeaderText(cols, rows) \o JoinLines(ls, 1) \o nl :
        cols \in ColumnsLines, rows \in 0..MaxRows,
        ls \in UNION {[1..n -> DataLines] : n \in 0..MaxDataLines},
        nl \in {<<>>, <<"\n">>}}

LoadInit ==
    /\ files \in {[f \in {<<"f">>} |-> text] : text \in LoadTexts}
    /\ tbl = Table(<<>>)
    /\ tables = <<>>
    /\ currentTable = NullPtr
    /\ last = Result("init", "none", <<>>)
    /\ pc = "api"
    /\ steps = 0

loadFromFile(filename) ==
    LET r == Table_loadFromFile(files[filename])
    IN  /\ last.op = "init"
        /\ tbl' = IF r.err = "none" THEN r.t ELSE tbl
        /\ last' = Result("loadFromFile", r.err, <<filename>>)
        /\ steps' = steps + 1
        /\ UNCHANGED <<tables, currentTable, files, pc>>

LoadNext ==
    \/ \E f \in DOMAIN files : loadFromFile(f)

LoadSpec == LoadInit /\ [][LoadNext]_vars

(***************************************************************************)
(* ReplSpec: the interactive loop of main.  pc is "prompt" while the loop  *)
(* waits for a line, "exited" after the break on exit or quit, and         *)
(* "terminated" when an exception left main (std::terminate).              *)
(***************************************************************************)
RECURSIVE JoinSpace(_, _)
JoinSpace(words, j) ==
    IF j > Len(words) THEN <<>>
    ELSE (IF j > 1 THEN <<" ">> ELSE <<>>) \o words[j] \o JoinSpace(words, j + 1)

Line(words) == JoinSpace(words, 1)

InputLines ==
    { <<>>,
      Line(<< <<"-","c">>, <<"t">>, <<"B">>, <<"A">> >>),
      Line(<< <<"-","-","c","r","e","a","t","e">>, contacts, Name, Phone >>),
      Line(<< <<"-","c">>, <<"t">> >>),
      Line(<< <<"-","e">>, <<"A","1">>, <<"J","o","h","n">>, <<"D","o","e">> >>),
      Line(<< <<"-","e">>, <<"N","a","m","e","1">>, <<"x">> >>),
      Line(<< <<"-","e">>, <<"N","a","m","e","0">>, <<"x">> >>),
      Line(<< <<"-","e">>, <<"A","1">> >>),
      Line(<< <<"-","v">> >>),
      Line(<< <<"-","s">>, <<"t">> >>),
      Line(<< <<"-","-","s","e","l","e","c","t">>, <<"z">> >>),
      Line(<< <<"-","s">> >>),
      Line(<< <<"-","l">>, <<"g">> >>),
      Line(<< <<"-","l">>, <<"f">> >>),
      Line(<< <<"-","l">> >>),
      Line(<< <<"-","s","v">>, <<"f">> >>),
      Line(<< <<"-","s","v">> >>),
      Line(<< <<"-","-","l","i","s","t">> >>),
      Line(<< <<"h","e","l","p">> >>),
      Line(<< <<"v","e","r","s","i","o","n">> >>),
      Line(<< <<"E","X","I","T">> >>),
      Line(<< <<"q","u","i","t">> >>),
      Line(<< <<"b","o","g","u","s">> >>) }

\* args = split(input, ' ') and command = toLower(args[0])
Args(input) == split(input, " ")

Command(input) == toLower(Args(input)[1])

\* the value of an edit: args[2], then " " + args[i] for every later i
RECURSIVE EditValue(_, _)
EditValue(args, i) ==
    IF i > Len(args) THEN <<>>
    ELSE (IF i > 3 THEN <<" ">> ELSE <<>>) \o args[i] \o EditValue(args, i + 1)

ReplInit ==
    /\ tables = <<>>
    /\ currentTable = NullPtr
    /\ files = InitialFiles
    /\ last = Result("init", "none", <<>>)
    /\ tbl = Table(<<>>)
    /\ pc = "prompt"
    /\ steps = 0

\* a line is read at the prompt and is not empty
Reads(input, commands) ==
    /\ pc = "prompt"
    /\ steps < MaxSteps
    /\ input # <<>>
    /\ Command(input) \in commands

ReplEmpty(input) ==
    /\ pc = "prompt"
    /\ steps < MaxSteps
    /\ input = <<>>
    /\ last' = Result("empty", "none", <<input>>)
    /\ UNCHANGED <<tables, currentTable, files, tbl, pc, steps>>

ReplExit(input) ==
    /\ Reads(input, {<<"e","x","i","t">>, <<"q","u","i","t">>})
    /\ pc' = "exited"
    /\ last' = Result("exit", "none", <<input>>)
    /\ UNCHANGED <<tables, currentTable, files, tbl, steps>>

\* help, version and --list only print
ReplPrint(input) ==
    /\ Reads(input, {<<"h","e","l","p">>, <<"v","e","r","s","i","o","n">>,
                     <<"-","-","l","i","s","t">>})
    /\ last' = Result("print", "none", <<input>>)
    /\ UNCHANGED <<tables, currentTable, files, tbl, pc, steps>>

\* dbManager.createTable is called outside any try block
ReplCreate(input) ==
    LET args == Args(input)
        r    == DM_createTable(tables, currentTable, args[2], SubSeq(args, 3, Len(args)))
    IN  /\ Reads(input, {<<"-","c">>, <<"-","-","c","r","e","a","t","e">>})
        /\ IF Len(args) < 3
           THEN /\ last' = Result("create", "usage", <<input>>)
                /\ UNCHANGED <<tables, currentTable, pc, steps>>
           ELSE /\ tables' = r.tables
                /\ currentTable' = r.currentTable
                /\ pc' = IF r.err = "none" THEN "prompt" ELSE "terminated"
                /\ last' = Result("create", r.err, <<input>>)
                /\ Count(r.err = "none")
        /\ UNCHANGED <<files, tbl>>

ReplEdit(input, k) ==
    LET args == Args(input)
        r    == DM_editCell(tables, currentTable, args[2], EditValue(args, 3), k)
    IN  /\ Reads(input, {<<"-","e">>, <<"-","-","e","d","i","t">>})
        /\ IF Len(args) < 3
           THEN /\ k = 0
                /\ last' = Result("edit", "usage", <<input>>)
                /\ UNCHANGED <<tables, steps>>
           ELSE /\ k = 0 \/ r.err = "bad_alloc"
                /\ tables' = r.tables
                /\ last' = Result("edit", r.err, <<input>>)
                /\ Count(r.tables # tables)
        /\ UNCHANGED <<currentTable, files, tbl, pc>>

ReplView(input) ==
    /\ Reads(input, {<<"-","v">>, <<"-","-","v","i","e","w">>})
    /\ last' = Result("view", DM_displayCurrentTable(tables, currentTable).err, <<input>>)
    /\ UNCHANGED <<tables, currentTable, files, tbl, pc, steps>>

ReplSelect(input) ==
    LET args == Args(input)
        r    == DM_selectTable(tables, currentTable, args[2])
    IN  /\ Reads(input, {<<"-","s">>, <<"-","-","s","e","l","e","c","t">>})
        /\ IF Len(args) < 2
           THEN /\ last' = Result("select", "usage", <<input>>)
                /\ UNCHANGED <<currentTable, steps>>
           ELSE /\ currentTable' = r.currentTable
                /\ last' = Result("select", r.err, <<input>>)
                /\ Count(r.currentTable # currentTable)
        /\ UNCHANGED <<tables, files, tbl, pc>>

ReplLoad(input) ==
    LET args == Args(input)
        r    == DM_loadTable(tables, currentTable, files, args[2])
    IN  /\ Reads(input, {<<"-","l">>, <<"-","-","l","o","a","d">>})
        /\ IF Len(args) < 2
           THEN /\ last' = Result("load", "usage", <<input>>)
                /\ UNCHANGED <<tables, currentTable, steps>>
           ELSE /\ tables' = r.tables
                /\ currentTable' = r.currentTable
                /\ last' = Result("load", r.err, <<input>>)
                /\ Count(r.err = "none")
        /\ UNCHANGED <<files, tbl, pc>>

ReplSave(input) ==
    LET args == Args(input)
        r    == DM_saveTable(tables, currentTable, files, args[2])
    IN  /\ Reads(input, {<<"-","s","v">>, <<"-","-","s","a","v","e">>})
        /\ IF Len(args) < 2
           THEN /\ last' = Result("save", "usage", <<input>>)
                /\ UNCHANGED <<tables, files, steps>>
           ELSE /\ tables' = r.tables
                /\ files' = r.files
                /\ last' = Result("save", r.err, <<input>>)
                /\ Count(r.err = "none")
        /\ UNCHANGED <<currentTable, tbl, pc>>

ReplCommands ==
    {<<"e","x","i","t">>, <<"q","u","i","t">>, <<"h","e","l","p">>,
     <<"v","e","r","s","i","o","n">>, <<"-","-","l","i","s","t">>,
     <<"-","c">>, <<"-","-","c","r","e","a","t","e">>,
     <<"-","e">>, <<"-","-","e","d","i","t">>,
     <<"-","v">>, <<"-","-","v","i","e","w">>,
     <<"-","s">>, <<"-","-","s","e","l","e","c","t">>,
     <<"-","l">>, <<"-","-","l","o","a","d">>,
     <<"-","s","v">>, <<"-","-","s","a","v","e">>}

ReplUnknown(input) ==
    /\ pc = "prompt"
    /\ steps < MaxSteps
    /\ input # <<>>
    /\ Command(input) \notin ReplCommands
    /\ last' = Result("unknown", "none", <<input>>)
    /\ UNCHANGED <<tables, currentTable, files, tbl, pc, steps>>

ReplNext ==
    \/ \E input \in InputLines : ReplEmpty(input)
    \/ \E input \in InputLines : ReplExit(input)
    \/ \E input \in InputLines : ReplPrint(input)
    \/ \E input \in InputLines : ReplCreate(input)
    \/ \E input \in InputLines, k \in 0..MaxPartial : ReplEdit(input, k)
    \/ \E input \in InputLines : ReplView(input)
    \/ \E input \in InputLines : ReplSelect(input)
    \/ \E input \in InputLines : ReplLoad(input)
    \/ \E input \in InputLines : ReplSave(input)
    \/ \E input \in InputLines : ReplUnknown(input)

ReplSpec == ReplInit /\ [][ReplNext]_vars

(***************************************************************************)
(* Properties.                                                             *)
(***************************************************************************)
CurrentT == Deref(tables, currentTable)

NoComma(t) ==
    \A c \in DOMAIN t.columns : \A i \in 1..Len(t.columns[c]) :
        \A p \in 1..Len(t.columns[c][i]) : t.columns[c][i][p] # ","

ActualFilename(filename) ==
    IF fileExists(files, filename) THEN filename ELSE filename \o STR_ODT

\* C1: round trip: when the file loaded holds what saveToFile writes for
\* the current table T, and no cell of T contains a comma, the load
\* succeeds and the table it installs equals T (name, column order, rows,
\* every cell)
C1_RoundTrip ==
    [][ ( /\ last'.op = "loadTable"
          /\ currentTable # NullPtr
          /\ fileExists(files, ActualFilename(last'.args[1]))
          /\ files[ActualFilename(last'.args[1])] = Table_saveToFile(CurrentT).text
          /\ NoComma(CurrentT) )
        => ( /\ last'.err = "none"
             /\ Deref(tables', currentTable') = CurrentT ) ]_vars

\* C2: editCell with a reference made of an existing column name and the
\* row number 0 fails with InvalidReference and changes no table
C2_RowZeroRejected ==
    [][ ( /\ last'.op = "editCell"
          /\ currentTable # NullPtr
          /\ \E j \in 1..Len(CurrentT.columnOrder) :
                 last'.args[1] = CurrentT.columnOrder[j] \o <<"0">> )
        => ( last'.err = "InvalidReference" /\ tables' = tables ) ]_vars

\* C3: from the registry that holds only the fresh table contacts with
\* columns Name, Phone, editCell("A1", "John Doe") succeeds, the row count
\* becomes 1, Name[0] is "John Doe" and Phone[0] is empty
C3_ReadmeScenario ==
    [][ ( /\ tables = [n \in {contacts} |->
                          AddColumns(Table(contacts), <<Name, Phone>>, 1)]
          /\ currentTable = PtrTo(contacts)
          /\ last'.op = "editCell"
          /\ last'.args = << <<"A", "1">>, JohnDoe >> )
        => ( /\ last'.err = "none"
             /\ Table_getRowCount(Deref(tables', currentTable')) = 1
             /\ Table_getCellConst(Deref(tables', currentTable'), Name, 0) = JohnDoe
             /\ Table_getCellConst(Deref(tables', currentTable'), Phone, 0) = <<>> ) ]_vars

\* C4: whatever a command does, the loop is at its prompt again afterwards;
\* it ends only by the break of exit or quit
C4_NoErrorIsFatal ==
    [][ pc = "prompt"
        => ( pc' = "prompt" \/ (pc' = "exited" /\ last'.op = "exit") ) ]_vars

EqualLength(t, r) == \A c \in DOMAIN t.columns : Len(t.columns[c]) = r

C6_SetCellAbsentColumn ==
    [][ ( last'.op = "setCell" /\ ~HasColumn(tbl, last'.args[1]) )
        => ( last'.err = "ColumnNotFound" /\ tbl' = tbl ) ]_vars

\* C7: a getCell call (either overload) never fails, yields an empty cell
\* for an absent column or a row out of range, and leaves the set of
\* columns, columnOrder and every column's length as they were
C7_GetCellReadSafe ==
    [][ last'.op \in {"getCell", "getCellConst"}
        => ( /\ last'.err = "none"
             /\ ( \/ ~HasColumn(tbl, last'.args[1])
                  \/ last'.args[2] >= Len(tbl.columns[last'.args[1]]) )
                => last'.ret = <<>>
             /\ DOMAIN tbl'.columns = DOMAIN tbl.columns
             /\ tbl'.columnOrder = tbl.columnOrder
             /\ \A c \in DOMAIN tbl.columns :
                   Len(tbl'.columns[c]) = Len(tbl.columns[c]) ) ]_vars

\* the lines of a text: the runs of characters that "\n" ends or separates
RECURSIVE LinesFrom(_, _)
LinesFrom(text, pos) ==
    IF pos > Len(text) THEN <<>>
    ELSE LET k == FindChar(text, pos, "\n")
         IN  IF k = 0 THEN <<SubSeq(text, pos, Len(text))>>
             ELSE <<SubSeq(text, pos, k - 1)>> \o LinesFrom(text, k + 1)

\* the text holds exactly the declared number of data lines after DATA:,
\* each of as many fields as there are declared columns
ExactData(text) ==
    LET ls   == LinesFrom(text, 1)
        N    == Len(split(SubstrFrom(ls[2], 8), ","))
        data == SubSeq(ls, 5, Len(ls))
    IN  /\ Len(data) = stoul(SubstrFrom(ls[3], 5)).value
        /\ \A i \in 1..Len(data) : Len(split(data[i], ",")) = N

\* C8: a load succeeds only on a text with exactly ROWS data lines of N
\* fields each; on every other text it fails with FormatError
C8_LoadValidation ==
    last.op = "loadFromFile"
    => ( /\ last.err = "none" => ExactData(files[last.args[1]])
         /\ ~ExactData(files[last.args[1]]) => last.err = "FormatError" )

C10_CreateExisting ==
    [][ ( last'.op = "createTable" /\ last'.args[1] \in DOMAIN tables )
        => ( /\ last'.err = "TableAlreadyExists"
             /\ tables' = tables
             /\ currentTable' = currentTable ) ]_vars

\* a refused createTable of a table that has a row, another table current
C10_Refused ==
    /\ last.op = "createTable"
    /\ last.err = "TableAlreadyExists"
    /\ currentTable # NullPtr
    /\ currentTable # PtrTo(last.args[1])
    /\ Table_getRowCount(tables[last.args[1]]) > 0

\* currentTable is unset, or points to an entry of tables that carries its
\* own key as name
CurrentValid(tabs, cur) ==
    cur = NullPtr \/ (cur[1] \in DOMAIN tabs /\ tabs[cur[1]].name = cur[1])

\* C11: in every state currentTable is unset or refers to a table of the
\* registry stored under its own name; it is unset exactly as long as no
\* createTable or loadTable has succeeded (the registry is empty) and is
\* never unset again; a successful loadTable stores the loaded table under
\* its name, replacing an entry of that name, leaves the other entries
\* alone and makes the loaded table current
C11_CurrentTable ==
    [][ /\ CurrentValid(tables, currentTable)
        /\ CurrentValid(tables', currentTable')
        /\ (currentTable = NullPtr) <=> (DOMAIN tables = {})
        /\ (currentTable' = NullPtr) <=> (DOMAIN tables' = {})
        /\ currentTable # NullPtr => currentTable' # NullPtr
        /\ (last'.op = "loadTable" /\ last'.err = "none")
           => LET loaded == Table_loadFromFile(files[ActualFilename(last'.args[1])]).t
              IN  /\ currentTable' = PtrTo(loaded.name)
                  /\ DOMAIN tables' = DOMAIN tables \cup {loaded.name}
                  /\ tables'[loaded.name] = loaded
                  /\ \A n \in DOMAIN tables \ {loaded.name} : tables'[n] = tables[n] ]_vars

\* the table t, held and edited before, replaced by the load of g.odt
C11_Reloaded ==
    /\ steps = 3
    /\ last = Result("loadTable", "none", << <<"g">> >>)
    /\ DOMAIN tables = {<<"t">>}
    /\ currentTable = PtrTo(<<"t">>)
    /\ tables[<<"t">>] = Table_loadFromFile(files[<<"g">> \o STR_ODT]).t

\* C12: after any sequence of Table operations the names in columnOrder are
\* exactly the keys of the column mapping, and columnOrder holds no name
\* twice
C12_ColumnOrderConsistent ==
    /\ {tbl.columnOrder[i] : i \in 1..Len(tbl.columnOrder)} = DOMAIN tbl.columns
    /\ \A i, j \in 1..Len(tbl.columnOrder) :
          tbl.columnOrder[i] = tbl.columnOrder[j] => i = j

\* C13: in every state, after successful and failed calls alike, all columns
\* of every table of the registry have one length, and getRowCount of the
\* table is that length (0 for a table without columns)
C13_EqualLength ==
    \A n \in DOMAIN tables :
        /\ \A c \in DOMAIN tables[n].columns :
              Len(tables[n].columns[c]) = Table_getRowCount(tables[n])
        /\ DOMAIN tables[n].columns = {} => Table_getRowCount(tables[n]) = 0

====
